---- MODULE Spec2Model ----
(***************************************************************************)
(* Model of scripts/test_persistence.py (class TestPersistence): the       *)
(* SQLite store with its four tables, the rotating set of gzip backups,    *)
(* the registry document file read at query time, and one action per       *)
(* public method.  Timestamps (CURRENT_TIMESTAMP, datetime.now(), file     *)
(* names and st_mtime) are readings of one clock counted in seconds.       *)
(***************************************************************************)
EXTENDS Integers, Sequences, FiniteSets, TLC

VARIABLES
    clock,        \* wall clock, in seconds
    sessions,     \* table test_sessions, in rowid order
    results,      \* table test_results, in result_id order
    registry,     \* table command_registry, a set of rows keyed by (command, subcommand)
    snapshots,    \* table test_snapshots, in snapshot_id order
    schema,       \* the tables and indexes the store file defines
    backups,      \* files of backup_dir matching *.db.gz, oldest st_mtime first
    backupCalls,  \* number of create_backup calls made on this backup directory
    doc,          \* the file test_results/discovered_commands.json
    exports,      \* the export_*.json files written into data_dir
    restoring,    \* the restore_backup call that is rewriting the store file
    connections,  \* the sqlite3 connections to the store file that are open
    call,         \* the last method called, with its arguments
    ret           \* what that call returned (or the exception it raised)

tables == <<sessions, results, registry, snapshots>>
vars == <<clock, sessions, results, registry, snapshots, schema, backups,
          backupCalls, doc, exports, restoring, connections, call, ret>>

(***************************************************************************)
(* Bounds of the model.                                                    *)
(***************************************************************************)
MaxClock == 2
MaxResults == 3
MaxSessions == 2
MaxSnapshots == 2
MaxBackupCalls == 12
OldBackups == 9

(***************************************************************************)
(* Values.                                                                 *)
(***************************************************************************)
\* Python None / SQL NULL where a string is expected
None == "None"
\* Python None / SQL NULL where an integer is expected
NoneInt == -2
\* the sentinel 'Never' in the place of a tested_at timestamp
Never == -1
\* timedelta(hours=24) and datetime('now', '-1 day'), in seconds
DaySeconds == 86400
\* _cleanup_old_backups(keep=10)
Keep == 10

Commands == {"mod", "ping"}
Subcommands == {"ban"}

\* The byte order SQLite's BINARY collation and Python's sorted() give the
\* strings that occur as command or subcommand.
StrOrder == <<"", "ban", "kick", "mod", "mute", "ping">>
StrRank(s) == CHOOSE i \in 1..Len(StrOrder) : StrOrder[i] = s

\* Python list of strings; json.dumps(list) is a text, not a list
PyList(items) == [form |-> "list", items |-> items]
JsonDumps(list) == [form |-> "json", items |-> list.items]
NullList == [form |-> "null", items |-> <<>>]

\* what a call gives its caller: a value, or an exception
Returned(v) == [value |-> v]
Raised(e) == [raised |-> e]

\* x or y, for strings where '' and None are the falsy values
Or(x, y) == IF x = "" \/ x = None THEN y ELSE x

Max(S) == CHOOSE m \in S : \A n \in S : n <= m
Min2(a, b) == IF a <= b THEN a ELSE b

RECURSIVE Gcd(_, _)
Gcd(a, b) == IF b = 0 THEN a ELSE Gcd(b, a % b)

RECURSIVE SumSeq(_)
SumSeq(s) == IF s = <<>> THEN 0 ELSE Head(s) + SumSeq(Tail(s))

(***************************************************************************)
(* The store file: the four tables created by _init_database.              *)
(***************************************************************************)
\* the objects _init_database creates
SchemaObjects ==
    {"test_sessions", "test_results", "command_registry", "test_snapshots",
     "idx_test_results_command", "idx_test_results_session",
     "idx_test_results_status"}

\* CREATE TABLE IF NOT EXISTS, CREATE INDEX IF NOT EXISTS: an object that
\* exists is left as it is
InitDatabase(objects) == objects \cup SchemaObjects

EmptyStore ==
    [sessions |-> <<>>, results |-> <<>>, registry |-> {}, snapshots |-> <<>>,
     schema |-> InitDatabase({})]

Store ==
    [sessions |-> sessions, results |-> results, registry |-> registry,
     snapshots |-> snapshots, schema |-> schema]

(***************************************************************************)
(* Sessions.                                                               *)
(***************************************************************************)
SessionArgs == {<<"u1", "g1", "c1">>, <<"u2", "g1", "c1">>}

\* hashlib.sha256(f"{user_id}{guild_id}{channel_id}{datetime.now()}").hexdigest()[:16]:
\* a function of the concatenated text and the clock reading, nothing else.
SessionDigest(user_id, guild_id, channel_id, now) ==
    [text |-> user_id \o guild_id \o channel_id, at |-> now]

SessionIds == {sessions[i].session_id : i \in 1..Len(sessions)}

SessionRow(session_id, user_id, guild_id, channel_id, now) ==
    [session_id |-> session_id, started_at |-> now, ended_at |-> NoneInt,
     user_id |-> user_id, guild_id |-> guild_id, channel_id |-> channel_id]

\* INSERT INTO test_sessions: session_id is the PRIMARY KEY
InsertSession(ss, row) == Append(ss, row)

\* the UPDATE without its WHERE clause: every session is ended
EndSessionRowsAll(ss, session_id, now) ==
    [i \in 1..Len(ss) |-> [ss[i] EXCEPT !.ended_at = now]]

\* UPDATE test_sessions SET ended_at = CURRENT_TIMESTAMP WHERE session_id = ?
EndSessionRows(ss, session_id, now) ==
    [i \in 1..Len(ss) |->
        IF ss[i].session_id = session_id
        THEN [ss[i] EXCEPT !.ended_at = now]
        ELSE ss[i]]

(***************************************************************************)
(* Test results.                                                           *)
(***************************************************************************)
\* INSERT INTO test_results: result_id is AUTOINCREMENT, tested_at defaults to
\* CURRENT_TIMESTAMP, subcommand is stored as (subcommand or "").
\* json.dumps(metadata or {}).
ResultRow(rs, session_id, command, subcommand, status, notes, error_output, execution_time_ms, metadata, now) ==
    [result_id |-> Len(rs) + 1, session_id |-> session_id, command |-> command,
     subcommand |-> Or(subcommand, ""), status |-> status, tested_at |-> now,
     notes |-> notes, error_output |-> error_output,
     execution_time_ms |-> execution_time_ms,
     metadata |-> IF metadata = None THEN "{}" ELSE metadata]

\* INSERT OR REPLACE keyed by (command, subcommand): the pair's earlier rows go
InsertResultReplacing(rs, session_id, command, subcommand, status, notes, error_output, execution_time_ms, metadata, now) ==
    LET kept == SelectSeq(rs, LAMBDA r : ~(r.command = command /\ r.subcommand = Or(subcommand, "")))
    IN  Append(kept, ResultRow(rs, session_id, command, subcommand, status, notes,
                               error_output, execution_time_ms, metadata, now))

InsertResult(rs, session_id, command, subcommand, status, notes, error_output, execution_time_ms, metadata, now) ==
    Append(rs, ResultRow(rs, session_id, command, subcommand, status, notes,
                         error_output, execution_time_ms, metadata, now))

\* WHERE command = ? AND subcommand = ?
RowsOfPair(rs, command, subcommand) ==
    {i \in 1..Len(rs) : rs[i].command = command /\ rs[i].subcommand = subcommand}

\* ORDER BY tested_at ASC LIMIT 1: the oldest rows of the pair
LatestOfPairOldest(rs, command, subcommand) ==
    {i \in RowsOfPair(rs, command, subcommand) :
        \A j \in RowsOfPair(rs, command, subcommand) :
            rs[i].tested_at <= rs[j].tested_at}

\* ORDER BY tested_at DESC LIMIT 1: the rows the query may return.  SQLite
\* leaves the order of rows with equal tested_at open.
LatestOfPair(rs, command, subcommand) ==
    {i \in RowsOfPair(rs, command, subcommand) :
        \A j \in RowsOfPair(rs, command, subcommand) :
            rs[j].tested_at <= rs[i].tested_at}

StatusRecord(row) ==
    [status |-> row.status, last_tested |-> row.tested_at, notes |-> row.notes,
     error_output |-> row.error_output,
     execution_time_ms |-> row.execution_time_ms]

Untested == [status |-> "untested"]

\* the values get_test_status may return
TestStatusAnswers(rs, command, subcommand) ==
    IF LatestOfPair(rs, command, Or(subcommand, "")) = {}
    THEN {Untested}
    ELSE {StatusRecord(rs[i]) : i \in LatestOfPair(rs, command, Or(subcommand, ""))}

(***************************************************************************)
(* The registry document (discovered_commands.json) and command_registry.  *)
(***************************************************************************)
SubEntry(name, description, aliases) ==
    [name |-> name, description |-> description, aliases |-> PyList(aliases)]

CmdEntry(name, description, aliases, subcommands) ==
    [name |-> name, description |-> description, aliases |-> PyList(aliases),
     subcommands |-> subcommands]

\* a command with a description, an alias and one described subcommand
DocModBan ==
    <<CmdEntry("mod", "moderate", <<"m">>, <<SubEntry("ban", "ban a user", <<>>)>>)>>
\* a command as _parse_framework leaves it: description '' and no subcommands
DocPingBare ==
    <<CmdEntry("ping", "", <<>>, <<>>)>>
\* a subcommand list with an empty name (command_extractor.py line 264 keeps
\* the empty piece that a trailing comma leaves)
DocPingEmptySub ==
    <<CmdEntry("ping", "pong", <<>>, <<SubEntry("", "", <<>>)>>)>>
\* two commands
DocBoth ==
    <<CmdEntry("mod", "", <<>>, <<SubEntry("ban", "", <<"b">>)>>),
      CmdEntry("ping", "pong", <<"p">>, <<>>)>>

Documents == {DocModBan, DocPingBare, DocPingEmptySub, DocBoth}

DocMissing == [state |-> "missing", commands |-> <<>>]
DocMalformed == [state |-> "malformed", commands |-> <<>>]
DocFile(commands) == [state |-> "ok", commands |-> commands]
DocFiles == {DocMissing, DocMalformed} \cup {DocFile(d) : d \in Documents}

\* the row INSERT OR REPLACE writes: the statement names command, subcommand,
\* description, aliases and last_modified; discovered_at and is_active take
\* their column defaults (CURRENT_TIMESTAMP and 1).
RegistryRow(command, subcommand, description, aliases, now) ==
    [command |-> command, subcommand |-> subcommand, description |-> description,
     aliases |-> JsonDumps(aliases), discovered_at |-> now,
     last_modified |-> now, is_active |-> 1]

\* a replacement keyed by the command alone: every row of the command goes
InsertOrReplaceByCommand(reg, row) ==
    {r \in reg : r.command # row.command} \cup {row}

\* INSERT OR REPLACE on PRIMARY KEY (command, subcommand): the row holding the
\* key is deleted and the new row inserted.
InsertOrReplace(reg, row) ==
    {r \in reg : ~(r.command = row.command /\ r.subcommand = row.subcommand)}
        \cup {row}

RECURSIVE UpsertSubcommands(_, _, _, _)
UpsertSubcommands(reg, cmd_name, subs, now) ==
    IF subs = <<>> THEN reg
    ELSE UpsertSubcommands(
            InsertOrReplace(reg, RegistryRow(cmd_name, Head(subs).name,
                Head(subs).description, Head(subs).aliases, now)),
            cmd_name, Tail(subs), now)

RECURSIVE UpsertCommands(_, _, _)
UpsertCommands(reg, commands, now) ==
    IF commands = <<>> THEN reg
    ELSE UpsertCommands(
            UpsertSubcommands(
                InsertOrReplace(reg, RegistryRow(Head(commands).name, "",
                    Head(commands).description, Head(commands).aliases, now)),
                Head(commands).name, Head(commands).subcommands, now),
            Tail(commands), now)

(***************************************************************************)
(* get_all_test_results.                                                   *)
(***************************************************************************)
PairsOfRows(rs) == {<<rs[i].command, rs[i].subcommand>> : i \in 1..Len(rs)}

\* SELECT MAX(tested_at) FROM test_results GROUP BY command, subcommand
GroupMaxima(rs) ==
    {Max({rs[i].tested_at : i \in RowsOfPair(rs, p[1], p[2])}) : p \in PairsOfRows(rs)}

\* WHERE r.tested_at IN (...): the rows the outer query keeps
SelectedRows(rs) == {i \in 1..Len(rs) : rs[i].tested_at \in GroupMaxima(rs)}

\* LEFT JOIN command_registry c ON r.command = c.command AND r.subcommand = c.subcommand
JoinedRow(row, reg) ==
    LET match == {c \in reg : c.command = row.command /\ c.subcommand = row.subcommand}
    IN  [command |-> row.command, subcommand |-> row.subcommand,
         status |-> row.status, tested_at |-> row.tested_at, notes |-> row.notes,
         error_output |-> row.error_output,
         execution_time_ms |-> row.execution_time_ms,
         description |-> IF match = {} THEN None
                         ELSE (CHOOSE c \in match : TRUE).description,
         aliases |-> IF match = {} THEN NullList
                     ELSE (CHOOSE c \in match : TRUE).aliases]

KeyLeq(a, b) ==
    \/ StrRank(a.command) < StrRank(b.command)
    \/ /\ a.command = b.command
       /\ StrRank(a.subcommand) <= StrRank(b.subcommand)

\* ORDER BY r.command, r.subcommand: the orders the query may return the kept
\* rows in (rows with equal keys come in an order SQLite leaves open)
QueryOrders(rs) ==
    LET S == SelectedRows(rs)
        n == Cardinality(S)
    IN  {o \in [1..n -> S] :
            /\ \A i, j \in 1..n : i # j => o[i] # o[j]
            /\ \A i, j \in 1..n : i < j => KeyLeq(rs[o[i]], rs[o[j]])}

LatestRowLists(rs, reg) ==
    {[k \in 1..Len(o) |-> JoinedRow(rs[o[k]], reg)] : o \in QueryOrders(rs)}

UntestedRecord(command, subcommand, description, aliases) ==
    [command |-> command, subcommand |-> subcommand, status |-> "untested",
     tested_at |-> Never, notes |-> "", error_output |-> None,
     execution_time_ms |-> NoneInt, description |-> description,
     aliases |-> aliases]

\* existing_pairs.add((command, subcommand or None))
ExistingPairs(existing) ==
    {<<existing[i].command, Or(existing[i].subcommand, None)>> : i \in 1..Len(existing)}

\* "Add all subcommands that don't exist"
RECURSIVE MissingSubcommands(_, _, _)
MissingSubcommands(command, subs, pairs) ==
    IF subs = <<>> THEN <<>>
    ELSE (IF <<command, Head(subs).name>> \notin pairs
          THEN <<UntestedRecord(command, Head(subs).name, Head(subs).description,
                                Head(subs).aliases)>>
          ELSE <<>>)
         \o MissingSubcommands(command, Tail(subs), pairs)

\* the base command added whatever its description
MissingBaseAnyDescription(cmd, pairs) ==
    IF <<cmd.name, None>> \notin pairs
    THEN <<UntestedRecord(cmd.name, None, cmd.description, cmd.aliases)>>
    ELSE <<>>

\* "Add base command if it doesn't exist and has description"
MissingBase(cmd, pairs) ==
    IF <<cmd.name, None>> \notin pairs /\ cmd.description # ""
    THEN <<UntestedRecord(cmd.name, None, cmd.description, cmd.aliases)>>
    ELSE <<>>

RECURSIVE MissingCommands(_, _)
MissingCommands(commands, pairs) ==
    IF commands = <<>> THEN <<>>
    ELSE MissingBase(Head(commands), pairs)
         \o MissingSubcommands(Head(commands).name, Head(commands).subcommands, pairs)
         \o MissingCommands(Tail(commands), pairs)

\* _integrate_with_discovered_commands: a missing or unparseable file gives
\* the list back as it came
IntegrateWithDiscoveredCommands(existing, file) ==
    IF file.state # "ok" THEN existing
    ELSE existing \o MissingCommands(file.commands, ExistingPairs(existing))

\* the lists get_all_test_results may return
AllTestResultsAnswers(rs, reg, file) ==
    {IntegrateWithDiscoveredCommands(l, file) : l \in LatestRowLists(rs, reg)}

(***************************************************************************)
(* get_statistics.                                                         *)
(***************************************************************************)
\* AVG(execution_time_ms) as a fraction in lowest terms; "or 0" when no rows
Average(rs) ==
    LET total == SumSeq([i \in 1..Len(rs) |-> rs[i].execution_time_ms])
        g == Gcd(total, Len(rs))
    IN  IF Len(rs) = 0 \/ total = 0 THEN <<0, 1>>
        ELSE <<total \div g, Len(rs) \div g>>

\* SELECT status, COUNT of rows FROM (rows WHERE tested_at IN (group maxima)) GROUP BY status
StatusDistribution(rs) ==
    LET S == SelectedRows(rs)
    IN  [st \in {rs[i].status : i \in S} |->
            Cardinality({i \in S : rs[i].status = st})]

Statistics(rs, now) ==
    [total_commands |->
        Cardinality({rs[i].command \o ":" \o rs[i].subcommand : i \in 1..Len(rs)}),
     total_sessions |-> Cardinality({rs[i].session_id : i \in 1..Len(rs)}),
     total_tests |-> Len(rs),
     avg_execution_time_ms |-> Average(rs),
     status_distribution |-> StatusDistribution(rs),
     tests_last_24h |->
        Cardinality({i \in 1..Len(rs) : rs[i].tested_at > now - DaySeconds})]

(***************************************************************************)
(* create_snapshot and export_to_json.                                     *)
(***************************************************************************)
\* snapshot_data; 'timestamp' is datetime.now().isoformat()
SnapshotData(result_list, stats, now) ==
    [timestamp |-> now, results |-> result_list, statistics |-> stats]

\* hashlib.sha256(json.dumps(snapshot_data, sort_keys=True).encode()).hexdigest():
\* a function of the content of snapshot_data (keys sorted), timestamp included
Checksum(data) == [sha256 |-> data]

SnapshotRow(ss, data, description, now) ==
    [snapshot_id |-> Len(ss) + 1, created_at |-> now,
     snapshot_data |-> [json |-> data], checksum |-> Checksum(data),
     description |-> description]

\* data_dir / f"export_{timestamp}.json" unless the caller names a path
ExportPath(output_path, now) ==
    IF output_path = None THEN [dir |-> "data_dir", export |-> now]
    ELSE [dir |-> "caller", export |-> output_path]

(***************************************************************************)
(* Backups.                                                                *)
(***************************************************************************)
\* f"test_data_{backup_type}_{timestamp}.db.gz", timestamp to the second
BackupName(backup_type, now) == [tag |-> backup_type, ts |-> now]

\* gzip.open(..., 'wb') / gzip.open(..., 'rb') around shutil.copyfileobj
Gzip(store) == [gz |-> store]
Gunzip(bytes) == bytes.gz

BackupFile(backup_type, now, store) ==
    [name |-> BackupName(backup_type, now), content |-> Gzip(store)]

BackupNames(bs) == {bs[i].name : i \in 1..Len(bs)}

OtherFiles(bs, name) ==
    IF bs = <<>> THEN <<>>
    ELSE LET keep == {i \in 1..Len(bs) : bs[i].name # name}
             pos(k) == CHOOSE i \in keep : Cardinality({j \in keep : j < i}) = k - 1
         IN  [k \in 1..Cardinality(keep) |-> bs[pos(k)]]

\* writing backup_path: a file of that name is truncated and rewritten, and
\* the file written last has the latest st_mtime
WriteBackupFile(bs, file) == Append(OtherFiles(bs, file.name), file)

\* backups[keep:] in the place of backups[:-keep]: the newest files unlinked
CleanupNewestBackups(bs, keep) ==
    IF Len(bs) > keep THEN SubSeq(bs, 1, keep) ELSE bs

\* sorted(glob, key=st_mtime); for backup in backups[:-keep]: backup.unlink()
CleanupOldBackups(bs, keep) ==
    IF Len(bs) > keep THEN SubSeq(bs, Len(bs) - keep + 1, Len(bs)) ELSE bs

\* the backup directory after create_backup(backup_type)
CreateBackupFiles(bs, backup_type, now, store) ==
    CleanupOldBackups(WriteBackupFile(bs, BackupFile(backup_type, now, store)), Keep)

\* _get_latest_backup looking at the 'auto' backups only
NeedsAutoBackupAutoOnly(bs, now) ==
    \A i \in 1..Len(bs) : bs[i].name.tag = "auto" => now - bs[i].name.ts > DaySeconds

\* _auto_backup: no backup, or the newest older than 24 hours
NeedsAutoBackup(bs, now) ==
    bs = <<>> \/ now - bs[Len(bs)].name.ts > DaySeconds

AutoBackupFiles(bs, now, store) ==
    IF NeedsAutoBackup(bs, now) THEN CreateBackupFiles(bs, "auto", now, store) ELSE bs

\* a backup directory filled by n earlier runs, more than a day apart, that
\* each backed up the still empty store
AgedBackups(n) ==
    [k \in 1..n |-> BackupFile("auto", 0 - (n - k + 1) * (DaySeconds + 1), EmptyStore)]

FileContent(bs, name) == bs[CHOOSE i \in 1..Len(bs) : bs[i].name = name].content

(***************************************************************************)
(* migrate_from_json.                                                      *)
(***************************************************************************)
Info(status, notes) ==
    [isDict |-> TRUE, hasStatus |-> TRUE, status |-> status,
     hasNotes |-> notes # None, notes |-> notes]
InfoNoStatus(notes) ==
    [isDict |-> TRUE, hasStatus |-> FALSE, status |-> None,
     hasNotes |-> TRUE, notes |-> notes]
InfoText == [isDict |-> FALSE, hasStatus |-> FALSE, status |-> None,
             hasNotes |-> FALSE, notes |-> None]
Entry(key, info) == [key |-> key, info |-> info]
Content(command, entries) == [command |-> command, isDict |-> TRUE, entries |-> entries]
ContentText(command) == [command |-> command, isDict |-> FALSE, entries |-> <<>>]
LegacyFile(state, top, items) == [state |-> state, top |-> top, items |-> items]

\* {"ping": {"_self": {"status": "passed", "notes": "ok"}}}
LegacyPing ==
    LegacyFile("ok", "dict", <<Content("ping", <<Entry("_self", Info("passed", "ok"))>>)>>)
\* entries with and without 'status', an entry and a command that are no mappings
LegacyMixed ==
    LegacyFile("ok", "dict",
        <<Content("mod", <<Entry("_self", Info("failed", None)),
                           Entry("kick", InfoNoStatus("later")),
                           Entry("ban", Info("passed", "n")),
                           Entry("mute", InfoText)>>),
          ContentText("ping")>>)
\* a 'status' of null after a usable entry
LegacyNullStatus ==
    LegacyFile("ok", "dict",
        <<Content("mod", <<Entry("_self", Info("passed", None)),
                           Entry("ban", Info(None, None))>>)>>)
\* valid JSON whose top level is a list
LegacyList == LegacyFile("ok", "list", <<>>)
LegacyMissing == LegacyFile("missing", "dict", <<>>)
LegacyMalformed == LegacyFile("malformed", "dict", <<>>)

LegacyFiles ==
    {LegacyPing, LegacyMixed, LegacyNullStatus, LegacyList, LegacyMissing,
     LegacyMalformed}

\* for command, content in data.items(): if isinstance(content, dict):
\*     for subcommand, info in content.items(): ...
RECURSIVE LegacyEntries(_)
LegacyEntries(items) ==
    IF items = <<>> THEN <<>>
    ELSE (IF Head(items).isDict
          THEN [k \in 1..Len(Head(items).entries) |->
                   [command |-> Head(items).command,
                    key |-> Head(items).entries[k].key,
                    info |-> Head(items).entries[k].info]]
          ELSE <<>>)
         \o LegacyEntries(Tail(items))

\* isinstance(info, dict) and 'status' in info
Qualifies(e) == e.info.isDict /\ e.info.hasStatus

\* the loop without the '_self' rule: every key stored as the subcommand
RECURSIVE ImportEntriesKeyAsIs(_, _, _, _)
ImportEntriesKeyAsIs(rs, session_id, es, now) ==
    IF es = <<>> THEN [results |-> rs, ok |-> TRUE]
    ELSE IF ~Qualifies(Head(es)) THEN ImportEntriesKeyAsIs(rs, session_id, Tail(es), now)
    ELSE IF Head(es).info.status = None THEN [results |-> rs, ok |-> FALSE]
    ELSE ImportEntriesKeyAsIs(
            InsertResult(rs, session_id, Head(es).command, Head(es).key,
                Head(es).info.status,
                IF Head(es).info.hasNotes THEN Head(es).info.notes ELSE "",
                "", 0, "{\"migrated\": true}", now),
            session_id, Tail(es), now)

\* the record_test calls of the loop, one committed insert each; a status of
\* None breaks the NOT NULL constraint and the exception ends the loop
RECURSIVE ImportEntries(_, _, _, _)
ImportEntries(rs, session_id, es, now) ==
    IF es = <<>> THEN [results |-> rs, ok |-> TRUE]
    ELSE IF ~Qualifies(Head(es)) THEN ImportEntries(rs, session_id, Tail(es), now)
    ELSE IF Head(es).info.status = None THEN [results |-> rs, ok |-> FALSE]
    ELSE ImportEntries(
            InsertResult(rs, session_id, Head(es).command,
                IF Head(es).key = "_self" THEN None ELSE Head(es).key,
                Head(es).info.status,
                IF Head(es).info.hasNotes THEN Head(es).info.notes ELSE "",
                "", 0, "{\"migrated\": true}", now),
            session_id, Tail(es), now)

(***************************************************************************)
(* Calls in progress: the store file while restore_backup rewrites it, and *)
(* the connections that are open.                                          *)
(***************************************************************************)
\* the processes that use one data directory
Procs == {"p1", "p2"}

\* shutil.copyfileobj writes the file front to back, a chunk at a time: the
\* schema first, then the tables
StorePieces == <<"schema", "sessions", "results", "registry", "snapshots">>

\* the store file when only its first n pieces are written
FilePrefix(store, n) ==
    LET written(piece) == \E i \in 1..n : StorePieces[i] = piece
    IN  [sessions |-> IF written("sessions") THEN store.sessions ELSE <<>>,
         results |-> IF written("results") THEN store.results ELSE <<>>,
         registry |-> IF written("registry") THEN store.registry ELSE {},
         snapshots |-> IF written("snapshots") THEN store.snapshots ELSE <<>>,
         schema |-> IF written("schema") THEN store.schema ELSE {}]

NotRestoring == [pc |-> "idle"]

\* a connection sqlite3.connect(self.db_path) has opened in process proc and
\* that is not closed: the call that opened it, the document and the
\* statements it has still to execute, the command_registry the connection
\* sees, whether it holds the write lock of an open transaction, and whether
\* the call has raised and left it behind
Connection(proc, op, commands, todo, work, lock, leaked) ==
    [proc |-> proc, op |-> op, commands |-> commands, todo |-> todo,
     work |-> work, lock |-> lock, leaked |-> leaked]

(***************************************************************************)
(* Initial state: TestPersistence() has just run, at clock 0, on a data    *)
(* directory without a store: _init_database created the empty tables and  *)
(* _auto_backup looked at the backup directory.                            *)
(***************************************************************************)
InitWith(old) ==
    /\ clock = 0
    /\ sessions = <<>>
    /\ results = <<>>
    /\ registry = {}
    /\ snapshots = <<>>
    /\ schema = InitDatabase({})
    /\ backups = AutoBackupFiles(old, 0, EmptyStore)
    /\ backupCalls = Len(old) + (IF NeedsAutoBackup(old, 0) THEN 1 ELSE 0)
    /\ doc = DocMissing
    /\ exports = {}
    /\ restoring = NotRestoring
    /\ connections = {}
    /\ call = [op |-> "__init__"]
    /\ ret = Returned(None)

\* an empty backup directory
Init == InitWith(<<>>)

\* a backup directory that earlier runs have filled
InitFilled == InitWith(AgedBackups(OldBackups))

\* an empty backup directory, or one that earlier runs have filled
InitAged == \E n \in {0, OldBackups} : InitWith(AgedBackups(n))

(***************************************************************************)
(* Actions.  A method called to its end is one step of process p1.  Each   *)
(* method closes the connection it opened before it returns; a connection  *)
(* that a raising call left behind is closed when its frame is released,   *)
(* which is when the caller lets go of the exception, before its next call.*)
(***************************************************************************)
Tick ==
    /\ clock < MaxClock
    /\ clock' = clock + 1
    /\ UNCHANGED <<restoring, connections, schema, sessions, results, registry, snapshots, backups, backupCalls,
                   doc, exports, call, ret>>

\* a day passes with no call
Sleep(seconds) ==
    /\ clock + seconds <= MaxClock * seconds
    /\ clock' = clock + seconds
    /\ UNCHANGED <<restoring, connections, schema, sessions, results, registry, snapshots, backups,
                   backupCalls, doc, exports, call, ret>>

\* __init__ with a _init_database that drops the tables and creates them anew
ConstructRecreating ==
    /\ NeedsAutoBackup(backups, clock) => backupCalls < MaxBackupCalls
    /\ call' = [op |-> "__init__"]
    /\ schema' = InitDatabase({})
    /\ sessions' = <<>>
    /\ results' = <<>>
    /\ registry' = {}
    /\ snapshots' = <<>>
    /\ backups' = AutoBackupFiles(backups, clock, EmptyStore)
    /\ backupCalls' = backupCalls + (IF NeedsAutoBackup(backups, clock) THEN 1 ELSE 0)
    /\ ret' = Returned(None)
    /\ connections' = {}
    /\ UNCHANGED <<restoring, clock, doc, exports>>

\* TestPersistence(data_dir) on a data directory in use (a process start):
\* _init_database, then _auto_backup
Construct ==
    /\ NeedsAutoBackup(backups, clock) => backupCalls < MaxBackupCalls
    /\ call' = [op |-> "__init__"]
    /\ schema' = InitDatabase(schema)
    /\ backups' = AutoBackupFiles(backups, clock,
                      [Store EXCEPT !.schema = InitDatabase(schema)])
    /\ backupCalls' = backupCalls + (IF NeedsAutoBackup(backups, clock) THEN 1 ELSE 0)
    /\ ret' = Returned(None)
    /\ connections' = {}
    /\ UNCHANGED <<restoring, clock, sessions, results, registry, snapshots, doc, exports>>

\* command_extractor.save_to_json rewrites the document; the file may also be
\* absent or hold text that is not JSON
WriteDocument(file) ==
    /\ call' = [op |-> "save_to_json"]
    /\ doc' = file
    /\ ret' = Returned(None)
    /\ UNCHANGED <<restoring, connections, schema, clock, sessions, results, registry, snapshots, backups,
                   backupCalls, exports>>

StartSession(user_id, guild_id, channel_id) ==
    LET session_id == SessionDigest(user_id, guild_id, channel_id, clock) IN
    /\ Len(sessions) < MaxSessions
    /\ call' = [op |-> "start_session", user_id |-> user_id,
                guild_id |-> guild_id, channel_id |-> channel_id]
    /\ IF session_id \in SessionIds
       THEN \* cursor.execute raises: conn.commit() and conn.close() are skipped
            /\ ret' = Raised("IntegrityError")
            /\ connections' = {Connection("p1", "start_session", <<>>, <<>>,
                                           registry, TRUE, TRUE)}
            /\ UNCHANGED sessions
       ELSE /\ sessions' = InsertSession(sessions,
                SessionRow(session_id, user_id, guild_id, channel_id, clock))
            /\ ret' = Returned(session_id)
            /\ connections' = {}
    /\ UNCHANGED <<restoring, schema, clock, results, registry, snapshots, backups, backupCalls,
                   doc, exports>>

EndSession(session_id) ==
    /\ call' = [op |-> "end_session", session_id |-> session_id]
    /\ sessions' = EndSessionRows(sessions, session_id, clock)
    /\ ret' = Returned(None)
    /\ connections' = {}
    /\ UNCHANGED <<restoring, schema, clock, results, registry, snapshots, backups, backupCalls,
                   doc, exports>>

RecordTest(session_id, command, subcommand, status, notes, error_output, execution_time_ms) ==
    /\ Len(results) < MaxResults
    /\ call' = [op |-> "record_test", session_id |-> session_id,
                command |-> command, subcommand |-> subcommand,
                status |-> status, notes |-> notes,
                error_output |-> error_output,
                execution_time_ms |-> execution_time_ms]
    /\ results' = InsertResult(results, session_id, command, subcommand, status,
                               notes, error_output, execution_time_ms, None, clock)
    /\ ret' = Returned(None)
    /\ connections' = {}
    /\ UNCHANGED <<restoring, schema, clock, sessions, registry, snapshots, backups, backupCalls,
                   doc, exports>>

UpdateCommandRegistry(commands) ==
    /\ call' = [op |-> "update_command_registry", commands |-> commands]
    /\ registry' = UpsertCommands(registry, commands, clock)
    /\ ret' = Returned(None)
    /\ connections' = {}
    /\ UNCHANGED <<restoring, schema, clock, sessions, results, snapshots, backups, backupCalls,
                   doc, exports>>

GetTestStatus(command, subcommand) ==
    /\ call' = [op |-> "get_test_status", command |-> command,
                subcommand |-> subcommand]
    /\ \E answer \in TestStatusAnswers(results, command, subcommand) :
          ret' = Returned(answer)
    /\ connections' = {}
    /\ UNCHANGED <<restoring, schema, clock, sessions, results, registry, snapshots, backups,
                   backupCalls, doc, exports>>

\* get_all_test_results writing the records it synthesizes into test_results
GetAllTestResultsPersisting ==
    /\ call' = [op |-> "get_all_test_results"]
    /\ \E answer \in AllTestResultsAnswers(results, registry, doc) :
          /\ ret' = Returned(answer)
          /\ results' =
                IF \E k \in 1..Len(answer) : answer[k].tested_at = Never
                THEN LET k == CHOOSE k \in 1..Len(answer) : answer[k].tested_at = Never
                     IN  InsertResult(results, None, answer[k].command,
                             answer[k].subcommand, "untested", "", "", 0, None, clock)
                ELSE results
    /\ connections' = {}
    /\ UNCHANGED <<restoring, schema, clock, sessions, registry, snapshots, backups, backupCalls,
                   doc, exports>>

GetAllTestResults ==
    /\ call' = [op |-> "get_all_test_results"]
    /\ \E answer \in AllTestResultsAnswers(results, registry, doc) :
          ret' = Returned(answer)
    /\ connections' = {}
    /\ UNCHANGED <<restoring, schema, clock, sessions, results, registry, snapshots, backups,
                   backupCalls, doc, exports>>

GetStatistics ==
    /\ call' = [op |-> "get_statistics"]
    /\ ret' = Returned(Statistics(results, clock))
    /\ connections' = {}
    /\ UNCHANGED <<restoring, schema, clock, sessions, results, registry, snapshots, backups,
                   backupCalls, doc, exports>>

CreateSnapshot(description) ==
    /\ Len(snapshots) < MaxSnapshots
    /\ call' = [op |-> "create_snapshot", description |-> description]
    /\ \E answer \in AllTestResultsAnswers(results, registry, doc) :
          snapshots' = Append(snapshots,
              SnapshotRow(snapshots,
                  SnapshotData(answer, Statistics(results, clock), clock),
                  description, clock))
    /\ ret' = Returned(Len(snapshots) + 1)
    /\ connections' = {}
    /\ UNCHANGED <<restoring, schema, clock, sessions, results, registry, backups, backupCalls,
                   doc, exports>>

ExportToJson(output_path) ==
    /\ call' = [op |-> "export_to_json", output_path |-> output_path]
    /\ exports' = exports \cup {ExportPath(output_path, clock)}
    /\ ret' = Returned(ExportPath(output_path, clock))
    /\ connections' = {}
    /\ UNCHANGED <<restoring, schema, clock, sessions, results, registry, snapshots, backups,
                   backupCalls, doc>>

CreateBackup(backup_type) ==
    /\ backupCalls < MaxBackupCalls
    /\ call' = [op |-> "create_backup", backup_type |-> backup_type]
    /\ backups' = CreateBackupFiles(backups, backup_type, clock, Store)
    /\ backupCalls' = backupCalls + 1
    /\ ret' = Returned(BackupName(backup_type, clock))
    /\ connections' = {}
    /\ UNCHANGED <<restoring, schema, clock, sessions, results, registry, snapshots, doc, exports>>

\* the store file is rewritten with the decompressed bytes of the backup
StoreBecomes(store) ==
    /\ sessions' = store.sessions
    /\ results' = store.results
    /\ registry' = store.registry
    /\ snapshots' = store.snapshots
    /\ schema' = store.schema

\* restore_backup with the safety backup made after the store is rewritten
RestoreBackupSavingAfter(backup_path) ==
    /\ call' = [op |-> "restore_backup", backup_path |-> backup_path,
                just_created |-> call.op = "create_backup" /\ ret = Returned(backup_path)]
    /\ IF backup_path \notin BackupNames(backups)
       THEN /\ ret' = Returned("False")
            /\ UNCHANGED <<sessions, results, registry, snapshots, schema,
                           backups, backupCalls>>
       ELSE LET restored == Gunzip(FileContent(backups, backup_path)) IN
            /\ backupCalls < MaxBackupCalls
            /\ StoreBecomes(restored)
            /\ backups' = CreateBackupFiles(backups, "pre_restore", clock, restored)
            /\ backupCalls' = backupCalls + 1
            /\ ret' = Returned("True")
    /\ connections' = {}
    /\ UNCHANGED <<restoring, clock, doc, exports>>

\* restore_backup with the safety backup made before the test for the file
RestoreBackupSavingFirst(backup_path) ==
    LET saved == CreateBackupFiles(backups, "pre_restore", clock, Store) IN
    /\ backupCalls < MaxBackupCalls
    /\ call' = [op |-> "restore_backup", backup_path |-> backup_path,
                just_created |-> call.op = "create_backup" /\ ret = Returned(backup_path)]
    /\ backups' = saved
    /\ backupCalls' = backupCalls + 1
    /\ IF backup_path \in BackupNames(saved)
       THEN /\ StoreBecomes(Gunzip(FileContent(saved, backup_path)))
            /\ ret' = Returned("True")
       ELSE /\ ret' = Returned("False")
            /\ UNCHANGED <<sessions, results, registry, snapshots, schema>>
    /\ connections' = {}
    /\ UNCHANGED <<restoring, clock, doc, exports>>

RestoreBackup(backup_path) ==
    /\ call' = [op |-> "restore_backup", backup_path |-> backup_path,
                just_created |-> call.op = "create_backup" /\ ret = Returned(backup_path)]
    /\ IF backup_path \notin BackupNames(backups)
       THEN \* not backup_file.exists()
            /\ ret' = Returned("False")
            /\ UNCHANGED <<sessions, results, registry, snapshots, schema,
                           backups, backupCalls>>
       ELSE LET saved == CreateBackupFiles(backups, "pre_restore", clock, Store) IN
            /\ backupCalls < MaxBackupCalls
            /\ backups' = saved
            /\ backupCalls' = backupCalls + 1
            /\ IF backup_path \in BackupNames(saved)
               THEN /\ StoreBecomes(Gunzip(FileContent(saved, backup_path)))
                    /\ ret' = Returned("True")
               ELSE \* the cleanup of create_backup has unlinked the file
                    /\ ret' = Raised("FileNotFoundError")
                    /\ UNCHANGED <<sessions, results, registry, snapshots, schema>>
    /\ connections' = {}
    /\ UNCHANGED <<restoring, clock, doc, exports>>

\* restore_backup up to open(self.db_path, 'wb'): the test for the file, the
\* safety backup, the backup opened for reading, the store file truncated
RestoreOpen(backup_path) ==
    /\ restoring.pc = "idle"
    /\ backup_path \in BackupNames(backups)
    /\ backupCalls < MaxBackupCalls
    /\ LET saved == CreateBackupFiles(backups, "pre_restore", clock, Store) IN
       /\ backup_path \in BackupNames(saved)
       /\ backups' = saved
       /\ restoring' = [pc |-> "copy", backup_path |-> backup_path,
                        before |-> Store,
                        source |-> Gunzip(FileContent(saved, backup_path)),
                        copied |-> 0]
       /\ StoreBecomes(FilePrefix(Gunzip(FileContent(saved, backup_path)), 0))
    /\ backupCalls' = backupCalls + 1
    /\ connections' = {}
    /\ UNCHANGED <<clock, doc, exports, call, ret>>

\* shutil.copyfileobj(f_in, f_out): one more chunk is written
RestoreCopy ==
    /\ restoring.pc = "copy"
    /\ restoring.copied < Len(StorePieces)
    /\ restoring' = [restoring EXCEPT !.copied = @ + 1]
    /\ StoreBecomes(FilePrefix(restoring.source, restoring.copied + 1))
    /\ UNCHANGED <<clock, backups, backupCalls, doc, exports, connections, call, ret>>

\* the files are closed and restore_backup returns True
RestoreReturn ==
    /\ restoring.pc = "copy"
    /\ restoring.copied = Len(StorePieces)
    /\ restoring' = NotRestoring
    /\ call' = [op |-> "restore_backup", backup_path |-> restoring.backup_path,
                just_created |-> FALSE]
    /\ ret' = Returned("True")
    /\ UNCHANGED <<clock, sessions, results, registry, snapshots, schema, backups,
                   backupCalls, doc, exports, connections>>

\* process p is killed: the files stay as they are written, the
\* transactions its connections had open are rolled back
Crash(p) ==
    /\ \/ p = "p1" /\ restoring.pc = "copy"
       \/ \E c \in connections : c.proc = p
    /\ restoring' = IF p = "p1" /\ restoring.pc = "copy"
                    THEN [restoring EXCEPT !.pc = "crashed"]
                    ELSE restoring
    /\ connections' = {c \in connections : c.proc # p}
    /\ call' = [op |-> "crash", proc |-> p]
    /\ UNCHANGED <<clock, sessions, results, registry, snapshots, schema, backups,
                   backupCalls, doc, exports, ret>>

\* the INSERT OR REPLACE statements of update_command_registry, in the order
\* of its loops
RECURSIVE Statements(_)
Statements(commands) ==
    IF commands = <<>> THEN <<>>
    ELSE <<[command |-> Head(commands).name, subcommand |-> "",
            description |-> Head(commands).description,
            aliases |-> Head(commands).aliases]>>
         \o [k \in 1..Len(Head(commands).subcommands) |->
                [command |-> Head(commands).name,
                 subcommand |-> Head(commands).subcommands[k].name,
                 description |-> Head(commands).subcommands[k].description,
                 aliases |-> Head(commands).subcommands[k].aliases]]
         \o Statements(Tail(commands))

\* update_command_registry in process p, up to its loop: sqlite3.connect
UpdateConnect(p, commands) ==
    /\ \A c \in connections : c.proc # p
    /\ connections' = connections \cup
          {Connection(p, "update_command_registry", commands,
                      Statements(commands), registry, FALSE, FALSE)}
    /\ UNCHANGED <<clock, sessions, results, registry, snapshots, schema, backups,
                   backupCalls, doc, exports, restoring, call, ret>>

\* each statement committed as it is executed (isolation_level = None)
UpdateExecuteAutocommit(p) ==
    \E c \in connections :
        /\ c.proc = p /\ ~c.leaked /\ c.todo # <<>>
        /\ registry' = InsertOrReplace(registry,
              RegistryRow(Head(c.todo).command, Head(c.todo).subcommand,
                          Head(c.todo).description, Head(c.todo).aliases, clock))
        /\ connections' = (connections \ {c}) \cup
              {[c EXCEPT !.todo = Tail(c.todo), !.work = registry']}
        /\ UNCHANGED <<clock, sessions, results, snapshots, schema, backups,
                       backupCalls, doc, exports, restoring, call, ret>>

\* one cursor.execute of the loop.  The first one begins the transaction and
\* takes the write lock of the store file, which one connection can hold at
\* a time; the rows written are seen by this connection only.
UpdateExecute(p) ==
    \E c \in connections :
        /\ c.proc = p /\ ~c.leaked /\ c.todo # <<>>
        /\ \A d \in connections : d.lock => d = c
        /\ connections' = (connections \ {c}) \cup
              {[c EXCEPT !.todo = Tail(c.todo), !.lock = TRUE,
                         !.work = InsertOrReplace(
                                     IF c.lock THEN c.work ELSE registry,
                                     RegistryRow(Head(c.todo).command,
                                         Head(c.todo).subcommand,
                                         Head(c.todo).description,
                                         Head(c.todo).aliases, clock))]}
        /\ UNCHANGED <<clock, sessions, results, registry, snapshots, schema,
                       backups, backupCalls, doc, exports, restoring, call, ret>>

\* conn.commit(), conn.close() and the return
UpdateCommit(p) ==
    \E c \in connections :
        /\ c.proc = p /\ ~c.leaked /\ c.todo = <<>>
        /\ registry' = IF c.lock THEN c.work ELSE registry
        /\ connections' = connections \ {c}
        /\ call' = [op |-> "update_command_registry", commands |-> c.commands,
                    proc |-> p]
        /\ ret' = Returned(None)
        /\ UNCHANGED <<clock, sessions, results, snapshots, schema, backups,
                       backupCalls, doc, exports, restoring>>

\* a cursor.execute of the loop raises sqlite3.OperationalError (the write
\* lock was not had within the timeout, the disk is full): the exception
\* leaves the method, conn.commit() and conn.close() are skipped
UpdateRaise(p) ==
    \E c \in connections :
        /\ c.proc = p /\ ~c.leaked /\ c.todo # <<>>
        /\ connections' = (connections \ {c}) \cup {[c EXCEPT !.leaked = TRUE]}
        /\ call' = [op |-> "update_command_registry", commands |-> c.commands,
                    proc |-> p]
        /\ ret' = Raised("OperationalError")
        /\ UNCHANGED <<clock, sessions, results, registry, snapshots, schema,
                       backups, backupCalls, doc, exports, restoring>>

\* the frame of the call that raised is released: the connection it left
\* behind is closed, which rolls its transaction back
Finalize(p) ==
    \E c \in connections :
        /\ c.proc = p /\ c.leaked
        /\ connections' = connections \ {c}
        /\ UNCHANGED <<clock, sessions, results, registry, snapshots, schema,
                       backups, backupCalls, doc, exports, restoring, call, ret>>

\* migrate_from_json without its try/except: the exception reaches the caller
MigrateFromJsonUnguarded(file) ==
    LET session_id == SessionDigest("migration", "migration", "migration", clock)
        started == InsertSession(sessions,
                      SessionRow(session_id, "migration", "migration", "migration", clock))
        imported == ImportEntries(results, session_id, LegacyEntries(file.items), clock)
    IN
    /\ Len(sessions) < MaxSessions
    /\ Len(imported.results) <= MaxResults
    /\ call' = [op |-> "migrate_from_json", json_path |-> file]
    /\ IF file.state # "ok" \/ session_id \in SessionIds
       THEN /\ ret' = Raised("Exception")
            /\ UNCHANGED <<sessions, results>>
       ELSE IF file.top # "dict"
       THEN /\ sessions' = started
            /\ ret' = Raised("Exception")
            /\ UNCHANGED results
       ELSE /\ results' = imported.results
            /\ IF imported.ok
               THEN /\ sessions' = EndSessionRows(started, session_id, clock)
                    /\ ret' = Returned("True")
               ELSE /\ sessions' = started
                    /\ ret' = Raised("Exception")
    /\ connections' = {}
    /\ UNCHANGED <<restoring, schema, clock, registry, snapshots, backups, backupCalls, doc, exports>>

MigrateFromJson(file) ==
    LET session_id == SessionDigest("migration", "migration", "migration", clock)
        started == InsertSession(sessions,
                      SessionRow(session_id, "migration", "migration", "migration", clock))
        imported == ImportEntries(results, session_id, LegacyEntries(file.items), clock)
    IN
    /\ Len(sessions) < MaxSessions
    /\ Len(imported.results) <= MaxResults
    /\ call' = [op |-> "migrate_from_json", json_path |-> file]
    /\ IF file.state # "ok" \/ session_id \in SessionIds
       THEN \* open or json.load raise, or the INSERT of start_session does
            /\ ret' = Returned("False")
            /\ UNCHANGED <<sessions, results>>
       ELSE IF file.top # "dict"
       THEN \* data.items() raises after start_session has committed
            /\ sessions' = started
            /\ ret' = Returned("False")
            /\ UNCHANGED results
       ELSE /\ results' = imported.results
            /\ IF imported.ok
               THEN /\ sessions' = EndSessionRows(started, session_id, clock)
                    /\ ret' = Returned("True")
               ELSE /\ sessions' = started
                    /\ ret' = Returned("False")
    /\ connections' = {}
    /\ UNCHANGED <<restoring, schema, clock, registry, snapshots, backups, backupCalls, doc, exports>>

(***************************************************************************)
(* Inputs.                                                                 *)
(***************************************************************************)
\* session ids callers pass: one of a session that may be stored, one that is not
SessionOne == SessionDigest("u1", "g1", "c1", 0)
OrphanSession == SessionDigest("nobody", "", "", 0)
KnownSessionIds == SessionIds \cup {OrphanSession}

\* the argument tuples record_test is called with
RecordArgs ==
    {<<SessionOne, "mod", None, "passed", "", "", 120>>,
     <<SessionOne, "mod", "", "failed", "n", "boom", 0>>,
     <<OrphanSession, "mod", "ban", "passed", "", "", 0>>,
     <<OrphanSession, "ping", None, "failed", "", "", 0>>}

\* those of them that record 'passed' for the command "mod"
FrameRecordArgs == {a \in RecordArgs : a[2] = "mod" /\ a[4] = "passed"}

\* one of them for each (command, subcommand) pair
QueryRecordArgs == {a \in RecordArgs : a[4] = "passed" \/ a[2] = "ping"}

\* the one of them that records a subcommand
BackupRecordArgs == {a \in RecordArgs : a[3] = "ban"}

SubcommandArgs == {None, ""} \cup Subcommands
BackupTypes == {"manual", "pre_restore", "auto"}
MissingBackup == BackupName("manual", 0 - 1)
\* the paths a caller passes to restore_backup: a file of the directory, a
\* path that names no file, the path create_backup has just returned
RestorePaths ==
    BackupNames(backups) \cup {MissingBackup}
        \cup (IF call.op = "create_backup" THEN {ret.value} ELSE {})

(***************************************************************************)
(* Specifications.                                                         *)
(***************************************************************************)
Next ==
    \/ Tick
    \/ \E f \in DocFiles : WriteDocument(f)
    \/ \E a \in SessionArgs : StartSession(a[1], a[2], a[3])
    \/ \E s \in KnownSessionIds : EndSession(s)
    \/ \E a \in RecordArgs : RecordTest(a[1], a[2], a[3], a[4], a[5], a[6], a[7])
    \/ \E d \in Documents : UpdateCommandRegistry(d)
    \/ \E c \in Commands, s \in SubcommandArgs : GetTestStatus(c, s)
    \/ GetAllTestResults
    \/ GetStatistics
    \/ \E d \in {"", "nightly"} : CreateSnapshot(d)
    \/ \E p \in {None, "out.json"} : ExportToJson(p)
    \/ \E t \in BackupTypes : CreateBackup(t)
    \/ \E p \in RestorePaths : RestoreBackup(p)
    \/ \E f \in LegacyFiles : MigrateFromJson(f)
    \/ Sleep(DaySeconds)
    \/ Construct

Spec == Init /\ [][Next]_vars

\* recording and asking for the latest status
NextStatus ==
    \/ Tick
    \/ \E a \in RecordArgs : RecordTest(a[1], a[2], a[3], a[4], a[5], a[6], a[7])
    \/ \E c \in Commands, s \in SubcommandArgs : GetTestStatus(c, s)
    \/ GetAllTestResults

SpecStatus == Init /\ [][NextStatus]_vars


\* recording, a changing registry document, and the aggregated view
NextQuery ==
    \/ Tick
    \/ \E f \in DocFiles : WriteDocument(f)
    \/ \E a \in QueryRecordArgs : RecordTest(a[1], a[2], a[3], a[4], a[5], a[6], a[7])
    \/ GetAllTestResults

SpecQuery == Init /\ [][NextQuery]_vars

\* the four queries between writes
NextFrame ==
    \/ Tick
    \/ \E f \in {DocMissing, DocFile(DocModBan)} : WriteDocument(f)
    \/ \E a \in FrameRecordArgs : RecordTest(a[1], a[2], a[3], a[4], a[5], a[6], a[7])
    \/ \E s \in {None, "ban"} : GetTestStatus("mod", s)
    \/ GetAllTestResults
    \/ GetStatistics
    \/ ExportToJson(None)

SpecFrame == Init /\ [][NextFrame]_vars

\* record_test for two pairs whose names contain ':' and join to one text
ColonRecordArgs ==
    {<<OrphanSession, "a:b", "c", "passed", "", "", 0>>,
     <<OrphanSession, "a", "b:c", "passed", "", "", 0>>}

\* statistics of a growing test history
NextStatistics ==
    \/ Tick
    \/ \E a \in RecordArgs \cup ColonRecordArgs :
          RecordTest(a[1], a[2], a[3], a[4], a[5], a[6], a[7])
    \/ GetStatistics

SpecStatistics == Init /\ [][NextStatistics]_vars

\* process starts on a data directory whose store is written to
NextConstruct ==
    \/ Tick
    \/ Sleep(DaySeconds)
    \/ Construct
    \/ \E a \in BackupRecordArgs : RecordTest(a[1], a[2], a[3], a[4], a[5], a[6], a[7])

SpecConstruct == Init /\ [][NextConstruct]_vars

\* process starts and manual backups, days apart or not
NextAutoBackup ==
    \/ Tick
    \/ Sleep(DaySeconds)
    \/ Construct
    \/ \E t \in {"manual"} : CreateBackup(t)

SpecAutoBackup == Init /\ [][NextAutoBackup]_vars

\* the argument triples of start_session, one of them with the concatenation
\* of another
CollidingSessionArgs == {<<"u1", "g1", "c1">>, <<"u1g", "1", "c1">>}

\* sessions started and ended while tests are recorded
NextSession ==
    \/ Tick
    \/ \E a \in CollidingSessionArgs : StartSession(a[1], a[2], a[3])
    \/ \E s \in KnownSessionIds : EndSession(s)
    \/ \E a \in BackupRecordArgs : RecordTest(a[1], a[2], a[3], a[4], a[5], a[6], a[7])

SpecSession == Init /\ [][NextSession]_vars

\* record_test for a session that is not stored, with a status of any text
HistoryRecordArgs == {<<OrphanSession, "mod", "ban", "bogus", "", "", 0>>}

\* every operation but restore_backup, on a backup directory in use;
\* snapshots and backups are taken while the history is short
NextHistory ==
    \/ StartSession("u1", "g1", "c1")
    \/ \E s \in SessionIds : EndSession(s)
    \/ \E a \in HistoryRecordArgs : RecordTest(a[1], a[2], a[3], a[4], a[5], a[6], a[7])
    \/ UpdateCommandRegistry(DocModBan)
    \/ (Len(results) <= 1 /\ CreateSnapshot(""))
    \/ (Len(results) <= 1 /\ \E t \in {"manual"} : CreateBackup(t))
    \/ MigrateFromJson(LegacyPing)
    \/ GetTestStatus("mod", "ban")

SpecHistory == InitFilled /\ [][NextHistory]_vars

\* reconciling the registry with one document after another
NextRegistry ==
    \/ Tick
    \/ \E d \in Documents : UpdateCommandRegistry(d)
    \/ \E a \in FrameRecordArgs : RecordTest(a[1], a[2], a[3], a[4], a[5], a[6], a[7])
    \/ GetAllTestResults

SpecRegistry == Init /\ [][NextRegistry]_vars

\* snapshots between recordings
NextSnapshot ==
    \/ Tick
    \/ \E a \in BackupRecordArgs : RecordTest(a[1], a[2], a[3], a[4], a[5], a[6], a[7])
    \/ \E d \in {"", "nightly"} : CreateSnapshot(d)

SpecSnapshot == Init /\ [][NextSnapshot]_vars

\* backups and restores of a store that is written to
NextBackup ==
    \/ Tick
    \/ \E a \in BackupRecordArgs : RecordTest(a[1], a[2], a[3], a[4], a[5], a[6], a[7])
    \/ \E t \in {"manual"} : CreateBackup(t)
    \/ \E p \in RestorePaths : RestoreBackup(p)

SpecBackup == InitFilled /\ [][NextBackup]_vars

\* one backup after another
NextRetention ==
    \/ Tick
    \/ \E t \in {"manual"} : CreateBackup(t)

SpecRetention == InitAged /\ [][NextRetention]_vars

\* migrations of legacy documents into a store in use
NextMigrate ==
    \/ Tick
    \/ \E a \in {<<"u1", "g1", "c1">>} : StartSession(a[1], a[2], a[3])
    \/ \E a \in BackupRecordArgs : RecordTest(a[1], a[2], a[3], a[4], a[5], a[6], a[7])
    \/ \E f \in LegacyFiles : MigrateFromJson(f)

SpecMigrate == Init /\ [][NextMigrate]_vars

\* a restore_backup call followed step by step, with a crash at any step, on
\* a backup directory in use
NextRestore ==
    \/ (restoring.pc = "idle" /\ Tick)
    \/ (restoring.pc = "idle" /\
           \E a \in BackupRecordArgs : RecordTest(a[1], a[2], a[3], a[4], a[5], a[6], a[7]))
    \/ (restoring.pc = "idle" /\ \E t \in {"manual"} : CreateBackup(t))
    \/ \E p \in BackupNames(backups) : RestoreOpen(p)
    \/ RestoreCopy
    \/ RestoreReturn
    \/ Crash("p1")

SpecRestore == InitFilled /\ [][NextRestore]_vars

\* two processes that reconcile the registry at the same time, statement by
\* statement, with errors and crashes
NextConcurrent ==
    \/ Tick
    \/ UpdateConnect("p1", DocBoth)
    \/ UpdateConnect("p2", DocModBan)
    \/ \E p \in Procs : UpdateExecute(p)
    \/ \E p \in Procs : UpdateCommit(p)
    \/ \E p \in Procs : UpdateRaise(p)
    \/ \E p \in Procs : Finalize(p)
    \/ \E p \in Procs : Crash(p)

SpecConcurrent == Init /\ [][NextConcurrent]_vars

(***************************************************************************)
(* Properties.                                                             *)
(***************************************************************************)
\* the subcommand a caller's argument denotes in the store
StoredSubcommand(subcommand) == IF subcommand = None THEN "" ELSE subcommand

\* C1: after any sequence of record_test calls, get_test_status(command,
\* subcommand) answers with the status, notes, error_output and
\* execution_time_ms of a stored row of exactly that pair whose tested_at is
\* the largest among the pair's rows (any one of them when several share it),
\* and with exactly {status: 'untested'} when the pair has no row.
C1_LatestStatus ==
    call.op = "get_test_status" =>
        LET rows == {i \in 1..Len(results) :
                        /\ results[i].command = call.command
                        /\ results[i].subcommand = StoredSubcommand(call.subcommand)}
        IN  IF rows = {}
            THEN ret = Returned([status |-> "untested"])
            ELSE \E i \in rows :
                    /\ \A j \in rows : results[j].tested_at <= results[i].tested_at
                    /\ ret.value.status = results[i].status
                    /\ ret.value.notes = results[i].notes
                    /\ ret.value.error_output = results[i].error_output
                    /\ ret.value.execution_time_ms = results[i].execution_time_ms

\* 'passed' was recorded, 'failed' was recorded later for the same pair, and
\* get_test_status has answered 'failed'
C1_Witness ==
    /\ call.op = "get_test_status"
    /\ call.command = "mod"
    /\ call.subcommand = None
    /\ \E i, j \in 1..Len(results) :
          /\ results[i].command = "mod" /\ results[i].subcommand = ""
          /\ results[j].command = "mod" /\ results[j].subcommand = ""
          /\ results[i].status = "passed" /\ results[j].status = "failed"
          /\ results[i].tested_at < results[j].tested_at
    /\ ret.value.status = "failed"

\* the (command, subcommand) pair of a record, None and '' denoting the base command
PairOf(rec) == <<rec.command, StoredSubcommand(rec.subcommand)>>
OutputPairs(list) == {PairOf(list[k]) : k \in 1..Len(list)}
TestedPairs == {<<results[i].command, results[i].subcommand>> : i \in 1..Len(results)}

\* the pairs of the subcommands the document declares
DeclaredSubPairs ==
    IF doc.state # "ok" THEN {}
    ELSE UNION {{<<doc.commands[c].name,
                   StoredSubcommand(doc.commands[c].subcommands[k].name)>> :
                    k \in 1..Len(doc.commands[c].subcommands)} :
                c \in 1..Len(doc.commands)}
\* the base pairs of the commands the document declares
DeclaredBasePairs ==
    IF doc.state # "ok" THEN {}
    ELSE {<<doc.commands[c].name, "">> : c \in 1..Len(doc.commands)}
\* the base pairs of the commands the document declares with a description
DescribedBasePairs ==
    IF doc.state # "ok" THEN {}
    ELSE {<<doc.commands[c].name, "">> :
            c \in {c \in 1..Len(doc.commands) : doc.commands[c].description # ""}}

\* C2: the list get_all_test_results returns holds at most one record for
\* each (command, subcommand) pair, a null subcommand and '' being the same
\* pair.
C2_OneRecordPerPair ==
    call.op = "get_all_test_results" =>
        \A i, j \in 1..Len(ret.value) :
            i # j => PairOf(ret.value[i]) # PairOf(ret.value[j])

C4_NoneSynthesizedForTestedPair ==
    call.op = "get_all_test_results" =>
        \A k \in 1..Len(ret.value) :
            ret.value[k].tested_at = Never => PairOf(ret.value[k]) \notin TestedPairs

\* C5: get_all_test_results, get_test_status, get_statistics and
\* export_to_json leave the four tables and the backup set as they were; the
\* synthesized 'untested' records never reach test_results.
QueryOps ==
    {"get_all_test_results", "get_test_status", "get_statistics", "export_to_json"}

C5_QueriesReadOnly ==
    [][call'.op \in QueryOps =>
          UNCHANGED <<sessions, results, registry, snapshots, backups>>]_vars

\* get_all_test_results has answered with a synthesized record next to a
\* tested one, and export_to_json has written a file
C5_Witness ==
    /\ call.op = "get_all_test_results"
    /\ Len(results) > 0
    /\ \E k \in 1..Len(ret.value) : ret.value[k].tested_at = Never
    /\ exports # {}
    /\ backups # <<>>

\* the rows of command_registry without their last_modified
WithoutLastModified(reg) ==
    {[command |-> r.command, subcommand |-> r.subcommand,
      description |-> r.description, aliases |-> r.aliases,
      discovered_at |-> r.discovered_at, is_active |-> r.is_active] : r \in reg}

\* C6: update_command_registry(doc) called again with the same doc, later and
\* with no other write in between, leaves every command_registry row as the
\* first call left it in command, subcommand, description, aliases,
\* discovered_at and is_active.
C6_ReapplyKeepsRows ==
    [][(call.op = "update_command_registry" /\ call' = call) =>
          WithoutLastModified(registry') = WithoutLastModified(registry)]_vars

\* C7: create_backup() returning p, then restore_backup(p) with no write in
\* between, returns True and leaves the four tables, and with them the
\* output of get_all_test_results, as they were before create_backup.
C7_BackupRestoreRoundTrip ==
    [][(/\ call.op = "create_backup"
        /\ call'.op = "restore_backup"
        /\ call'.backup_path = ret.value) =>
          /\ ret' = Returned("True")
          /\ <<sessions', results', registry', snapshots'>> = tables
          /\ AllTestResultsAnswers(results', registry', doc')
                = AllTestResultsAnswers(results, registry, doc)]_vars

\* restore_backup has returned True for the path the create_backup before it
\* returned, on a store with test results, in a backup directory that is full
C7_Witness ==
    /\ call.op = "restore_backup"
    /\ call.just_created
    /\ ret = Returned("True")
    /\ Len(results) > 0
    /\ Len(backups) = Keep
    /\ backupCalls > Keep + 1

\* C8: two create_snapshot calls one after the other, at different clock
\* readings and with no write in between, store the same checksum.
C8_SameChecksum ==
    [][(/\ call.op = "create_snapshot"
        /\ call'.op = "create_snapshot"
        /\ Len(snapshots') = Len(snapshots) + 1
        /\ snapshots'[Len(snapshots')].created_at
              # snapshots[Len(snapshots)].created_at) =>
          snapshots'[Len(snapshots')].checksum
              = snapshots[Len(snapshots)].checksum]_vars

\* C9: after every create_backup the directory holds at most 10 backups, the
\* file just created among them, and n calls on a directory that was empty
\* leave min(n, 10) files (15 calls leave exactly 10, those of the last 10
\* calls).
C9_Retention ==
    /\ Len(backups) <= Keep
    /\ call.op = "create_backup" => ret.value \in BackupNames(backups)
    /\ Len(backups) = Min2(backupCalls, Keep)

\* the (command, key) entries of a legacy document that migrate_from_json
\* imports: the value is a mapping that contains 'status'
QualifyingEntries(file) ==
    {<<c, k>> \in (1..Len(file.items)) \X (1..4) :
        /\ file.items[c].isDict
        /\ k <= Len(file.items[c].entries)
        /\ file.items[c].entries[k].info.isDict
        /\ file.items[c].entries[k].info.hasStatus}

\* C10: a migrate_from_json that returns True has created exactly one new
\* session (user, guild and channel 'migration') with ended_at set, and has
\* inserted exactly one test_results row for each entry whose value is a
\* mapping containing 'status' and none for the others, with subcommand ''
\* for the key '_self' and the key otherwise, the entry's status and notes,
\* and that session's id.
C10_Migration ==
    [][((\E f \in LegacyFiles : MigrateFromJson(f)) /\ ret' = Returned("True")) =>
          LET file == call'.json_path
              new == {i \in 1..Len(results') : i > Len(results)}
              session == sessions'[Len(sessions')]
          IN  /\ Len(sessions') = Len(sessions) + 1
              /\ SubSeq(sessions', 1, Len(sessions)) = sessions
              /\ session.user_id = "migration"
              /\ session.guild_id = "migration"
              /\ session.channel_id = "migration"
              /\ session.ended_at # NoneInt
              /\ SubSeq(results', 1, Len(results)) = results
              /\ Cardinality(new) = Cardinality(QualifyingEntries(file))
              /\ \A i \in new : results'[i].session_id = session.session_id
              /\ \A e \in QualifyingEntries(file) :
                    LET entry == file.items[e[1]].entries[e[2]] IN
                    Cardinality({i \in new :
                        /\ results'[i].command = file.items[e[1]].command
                        /\ results'[i].subcommand =
                              (IF entry.key = "_self" THEN "" ELSE entry.key)
                        /\ results'[i].status = entry.info.status
                        /\ results'[i].notes =
                              (IF entry.info.hasNotes THEN entry.info.notes ELSE "")})
                      = 1]_vars

\* migrate_from_json has returned True for a document with a '_self' entry,
\* a subcommand entry, an entry without 'status' and values that are no
\* mappings, into a store that already held a session and a result
C10_Witness ==
    /\ call.op = "migrate_from_json"
    /\ call.json_path = LegacyMixed
    /\ ret = Returned("True")
    /\ Len(sessions) = 2
    /\ Len(results) = 3
    /\ results[1].metadata = "{}"
    /\ sessions[2].ended_at # NoneInt


\* C11: when the rows of each pair have distinct timestamps, the
\* status_distribution of get_statistics counts every tested pair exactly
\* once, under the status of the pair's row with the largest tested_at, so
\* its counts sum to the number of tested pairs.
C11_DistributionCountsPairsOnce ==
    LET distinct ==
            \A i, j \in 1..Len(results) :
                (/\ i # j
                 /\ results[i].command = results[j].command
                 /\ results[i].subcommand = results[j].subcommand) =>
                    results[i].tested_at # results[j].tested_at
        latest(p) ==
            results[CHOOSE i \in LatestOfPair(results, p[1], p[2]) : TRUE].status
    IN  (call.op = "get_statistics" /\ distinct) =>
            LET d == ret.value.status_distribution IN
            /\ DOMAIN d = {latest(p) : p \in TestedPairs}
            /\ \A st \in DOMAIN d :
                  d[st] = Cardinality({p \in TestedPairs : latest(p) = st})


\* C12: restore_backup with a path that names no file returns False, raises
\* nothing, and leaves the store and the backup directory as they were: no
\* 'pre_restore' backup is written and no backup is pruned.
C12_MissingPathReturnsFalse ==
    [][\A p \in RestorePaths :
          (p \notin BackupNames(backups) /\ RestoreBackup(p)) =>
              /\ ret' = Returned("False")
              /\ UNCHANGED <<sessions, results, registry, snapshots, schema,
                             backups, backupCalls>>]_vars

\* restore_backup has returned False for a path that names no file, on a
\* store with test results and a full backup directory
C12_Witness ==
    /\ call.op = "restore_backup"
    /\ call.backup_path = MissingBackup
    /\ call.backup_path \notin BackupNames(backups)
    /\ ret = Returned("False")
    /\ Len(results) > 0
    /\ Len(backups) = Keep

\* C13: every restore_backup on an existing path writes the 'pre_restore'
\* backup from the store as it was when restore_backup was called, before
\* the store is overwritten; when restore_backup returns True the backup
\* directory holds a backup tagged 'pre_restore' whose decompressed content
\* is that store.
C13_PreRestoreBackupFirst ==
    [][\A p \in RestorePaths :
          (p \in BackupNames(backups) /\ RestoreBackup(p)) =>
              \E i \in 1..Len(backups') :
                  /\ backups'[i].name = BackupName("pre_restore", clock)
                  /\ Gunzip(backups'[i].content) = Store]_vars

\* restore_backup has returned True and replaced a store that held test
\* results by another content; a 'pre_restore' backup holds the old store
C13_Witness ==
    /\ call.op = "restore_backup"
    /\ ret = Returned("True")
    /\ \E i \in 1..Len(backups) :
          /\ backups[i].name = BackupName("pre_restore", clock)
          /\ Gunzip(backups[i].content) # Store
          /\ Len(Gunzip(backups[i].content).results) > 0

\* C14 as stated: migrate_from_json never raises; it returns False for a
\* missing file, for text that is not JSON, and for JSON whose top level or
\* whose entries do not have the legacy shape; it returns True only when
\* every qualifying entry was recorded.
C14_MisshapenEntriesFail ==
    [][\A f \in LegacyFiles : MigrateFromJson(f) =>
          LET misshapen ==
                  \E c \in 1..Len(f.items) :
                      \/ ~f.items[c].isDict
                      \/ \E k \in 1..Len(f.items[c].entries) :
                            ~Qualifies(f.items[c].entries[k])
          IN  /\ ret' \in {Returned("True"), Returned("False")}
              /\ (f.state # "ok" \/ f.top # "dict" \/ misshapen) =>
                    ret' = Returned("False")
              /\ ret' = Returned("True") =>
                    Len(results') - Len(results) = Cardinality(QualifyingEntries(f))]_vars

\* C14, amended: migrate_from_json never raises; it returns False for a
\* missing file, for text that is not JSON and for JSON whose top level is
\* no mapping; entries that do not have the legacy shape are skipped and do
\* not make it fail; it returns True only when every qualifying entry was
\* recorded.
C14_NeverRaises ==
    [][\A f \in LegacyFiles : MigrateFromJson(f) =>
          /\ ret' \in {Returned("True"), Returned("False")}
          /\ (f.state # "ok" \/ f.top # "dict") => ret' = Returned("False")
          /\ ret' = Returned("True") =>
                Len(results') - Len(results) = Cardinality(QualifyingEntries(f))]_vars

\* migrate_from_json has returned False for a file that is valid JSON with
\* a list at its top level, after it had started its migration session
C14_Witness ==
    /\ call.op = "migrate_from_json"
    /\ call.json_path = LegacyList
    /\ ret = Returned("False")
    /\ Len(sessions) > 0
    /\ sessions[Len(sessions)].user_id = "migration"


\* C15: constructing TestPersistence on a data directory that holds a store
\* leaves every row of the four tables as it was, and the schema after any
\* number of constructions is the schema after one.
C15_ConstructionKeepsStore ==
    [][Construct =>
          /\ UNCHANGED <<sessions, results, registry, snapshots>>
          /\ schema' = schema
          /\ schema' = InitDatabase({})]_vars

\* TestPersistence has been constructed again on a store that holds rows
C15_Witness ==
    /\ call.op = "__init__"
    /\ Len(results) > 0
    /\ clock > 0

\* C16: a construction writes an 'auto' backup exactly when the backup
\* directory is empty or its newest backup, of whatever tag, is more than
\* 24 hours old; no other operation writes an 'auto' backup; two 'auto'
\* backups are therefore more than 24 hours apart.
C16_AutoBackupOnConstruction ==
    [][LET autos(bs) ==
               {bs[i].name : i \in {k \in 1..Len(bs) : bs[k].name.tag = "auto"}}
       IN  /\ Construct =>
                ((/\ backupCalls' = backupCalls + 1
                  /\ BackupName("auto", clock) \in BackupNames(backups'))
                 <=> (\A i \in 1..Len(backups) :
                          clock - backups[i].name.ts > DaySeconds))
           /\ Construct => (backupCalls' = backupCalls => backups' = backups)
           /\ Construct \/ autos(backups') \subseteq autos(backups)
           /\ \A m, n \in autos(backups') :
                 m.ts < n.ts => n.ts - m.ts > DaySeconds]_vars

\* a construction more than a day after the first has written an 'auto'
\* backup into a directory that also holds a manual backup
C16_Witness ==
    /\ call.op = "__init__"
    /\ clock > DaySeconds
    /\ backups[Len(backups)].name = BackupName("auto", clock)
    /\ \E i \in 1..Len(backups) : backups[i].name.tag = "manual"

\* C17: end_session with an id that matches no session returns without
\* error and leaves every table as it was; with a matching id it changes
\* the ended_at of that one row and nothing else.
C17_EndSessionFrame ==
    [][\A s \in KnownSessionIds : EndSession(s) =>
          /\ ret' = Returned(None)
          /\ UNCHANGED <<results, registry, snapshots, schema, backups>>
          /\ Len(sessions') = Len(sessions)
          /\ \A i \in 1..Len(sessions) :
                IF sessions[i].session_id = s
                THEN sessions'[i] =
                        [sessions[i] EXCEPT !.ended_at = sessions'[i].ended_at]
                ELSE sessions'[i] = sessions[i]
          /\ s \notin SessionIds => sessions' = sessions]_vars

\* end_session has ended one of two stored sessions; the other is open
C17_Witness ==
    /\ call.op = "end_session"
    /\ Len(sessions) = 2
    /\ \E i, j \in 1..2 :
          /\ sessions[i].session_id = call.session_id
          /\ sessions[i].ended_at # NoneInt
          /\ sessions[j].ended_at = NoneInt

\* C18: every start_session call succeeds, whatever the triple and the
\* clock reading: it returns an id that no session stored before had and
\* inserts one row with that id and a null ended_at.
C18_StartSessionSucceeds ==
    call.op = "start_session" =>
        /\ ret # Raised("IntegrityError")
        /\ \E i \in 1..Len(sessions) :
              /\ sessions[i].session_id = ret.value
              /\ sessions[i].user_id = call.user_id
              /\ \A j \in 1..Len(sessions) :
                    j # i => sessions[j].session_id # ret.value

\* C19: test history is append-only.  No operation other than restore_backup
\* changes or removes a test_results row; record_test succeeds for a session
\* id that matches no session and for any status text, and adds exactly one
\* row, whose result_id is larger than every earlier one.
C19_AppendOnly ==
    [][/\ Len(results') >= Len(results)
       /\ SubSeq(results', 1, Len(results)) = results
       /\ \A a \in HistoryRecordArgs :
             RecordTest(a[1], a[2], a[3], a[4], a[5], a[6], a[7]) =>
                /\ ret' = Returned(None)
                /\ Len(results') = Len(results) + 1
                /\ results'[Len(results')].status = a[4]
                /\ \A i \in 1..Len(results) :
                      results'[Len(results')].result_id > results[i].result_id]_vars

\* record_test has stored a row with the status 'bogus' for a session that
\* is not stored, after earlier rows of the same pair, a snapshot and a
\* registry update
C19_Witness ==
    /\ call.op = "record_test"
    /\ call.status = "bogus"
    /\ call.session_id \notin SessionIds
    /\ Len(results) = 3
    /\ results[1].command = results[3].command
    /\ results[1].subcommand = results[3].subcommand
    /\ results[3].status = "bogus"
    /\ Len(snapshots) > 0
    /\ registry # {}

\* C20: when the registry document is missing or is not JSON,
\* get_all_test_results raises nothing and returns exactly one record for
\* each tested pair, that of a row of the pair with the largest tested_at,
\* and no synthesized 'untested' record.
C20_NoDocumentGivesLatestPerPair ==
    (call.op = "get_all_test_results" /\ doc.state # "ok") =>
        /\ ret \in {Returned(list) : list \in LatestRowLists(results, registry)}
        /\ Len(ret.value) = Cardinality(TestedPairs)
        /\ \A k \in 1..Len(ret.value) :
              /\ ret.value[k].tested_at # Never
              /\ \E i \in LatestOfPair(results, ret.value[k].command,
                                       ret.value[k].subcommand) :
                    ret.value[k] = JoinedRow(results[i], registry)

\* C21: every record of get_all_test_results that stems from test history
\* (tested_at other than 'Never') is a row whose tested_at is the largest of
\* its own (command, subcommand) pair; no older row of a pair is returned,
\* even when its tested_at is the largest of another pair.
C21_OnlyLatestRowOfOwnPair ==
    call.op = "get_all_test_results" =>
        \A k \in 1..Len(ret.value) :
            ret.value[k].tested_at # Never =>
                \A i \in RowsOfPair(results, ret.value[k].command,
                                    ret.value[k].subcommand) :
                    results[i].tested_at <= ret.value[k].tested_at

\* C22: for every backup file that exists in the backup directory when
\* restore_backup is called, whatever the number of backups present (10 with
\* the target the oldest included), restore_backup returns True, raises
\* nothing, and leaves the live store equal to the decompressed content the
\* file held when the call was made.
C22_RestoreOfExistingFileSucceeds ==
    [][\A p \in RestorePaths :
          (p \in BackupNames(backups) /\ RestoreBackup(p)) =>
              /\ ret' = Returned("True")
              /\ [sessions |-> sessions', results |-> results',
                  registry |-> registry', snapshots |-> snapshots',
                  schema |-> schema'] = Gunzip(FileContent(backups, p))]_vars

\* C23: the replacement of the live store by restore_backup is atomic: at
\* every intermediate step of restore_backup, and after a crash at any
\* point, the live store file holds its complete pre-restore content or the
\* complete content of the backup, never an empty, truncated or mixed file.
C23_AtomicReplacement ==
    restoring.pc \in {"copy", "crashed"} =>
        Store \in {restoring.before, restoring.source}

\* C24: get_statistics returns total_commands equal to the number of
\* distinct (command, subcommand) pairs in test_results, for all command and
\* subcommand strings, those containing ':' included; total_tests equal to
\* the number of rows; total_sessions equal to the number of distinct
\* session ids among the rows; and, when there are no rows, 0 for these and
\* for avg_execution_time_ms, with an empty status_distribution.
C24_TotalsCountPairsRowsSessions ==
    call.op = "get_statistics" =>
        /\ ret.value.total_commands = Cardinality(TestedPairs)
        /\ ret.value.total_tests = Len(results)
        /\ ret.value.total_sessions =
              Cardinality({results[i].session_id : i \in 1..Len(results)})
        /\ Len(results) = 0 =>
              /\ ret.value.avg_execution_time_ms = <<0, 1>>
              /\ DOMAIN ret.value.status_distribution = {}

\* C25: a null subcommand and an empty-string subcommand denote the same
\* base-command pair wherever subcommands are compared: record_test stores
\* '' for both, get_test_status(c, None) and get_test_status(c, '') answer
\* alike, and get_all_test_results gives no synthesized 'untested' record to
\* a base command that has a test_results row, whether the document declares
\* it as a command or lists '' among its subcommand keys.
C25_NullAndEmptyAreOnePair ==
    /\ \A i \in 1..Len(results) : results[i].subcommand # None
    /\ call.op = "get_test_status" =>
          LET other == IF call.subcommand = None THEN ""
                       ELSE IF call.subcommand = "" THEN None
                       ELSE call.subcommand
          IN  ret.value \in TestStatusAnswers(results, call.command, other)
    /\ call.op = "get_all_test_results" =>
          \A k \in 1..Len(ret.value) :
              (/\ ret.value[k].tested_at = Never
               /\ ret.value[k].subcommand \in {None, ""}) =>
                  <<ret.value[k].command, "">> \notin TestedPairs

\* C26: across session and recording operations, restore_backup excluded, a
\* test_sessions row is never deleted, its session_id, started_at, user_id,
\* guild_id and channel_id never change, and its ended_at changes at most
\* once: once it is non-null, a further end_session on the id leaves it at
\* the value first set.
C26_SessionEndedOnce ==
    [][/\ Len(sessions') >= Len(sessions)
       /\ \A i \in 1..Len(sessions) :
             /\ sessions'[i].session_id = sessions[i].session_id
             /\ sessions'[i].started_at = sessions[i].started_at
             /\ sessions'[i].user_id = sessions[i].user_id
             /\ sessions'[i].guild_id = sessions[i].guild_id
             /\ sessions'[i].channel_id = sessions[i].channel_id
             /\ sessions[i].ended_at # NoneInt =>
                   sessions'[i].ended_at = sessions[i].ended_at]_vars

\* C27: a registry reconciliation batch is all-or-nothing and serialized.
\* At most one connection holds the write lock; command_registry, as every
\* connection but the writer sees it, changes only when a process commits,
\* and then to the content committed before with that process's whole
\* document applied to it, so that two concurrent batches leave the table as
\* one applied after the other in the order of their commits; an error or a
\* crash in the middle of a batch, and the rollback that follows, leave none
\* of the batch's rows visible.
C27_BatchesAtomicAndSerialized ==
    [][LET content(reg) ==
               {[command |-> r.command, subcommand |-> r.subcommand,
                 description |-> r.description, aliases |-> r.aliases,
                 is_active |-> r.is_active] : r \in reg}
       IN  /\ Cardinality({c \in connections' : c.lock}) <= 1
           /\ \A p \in Procs :
                 /\ (UpdateConnect(p, DocModBan) \/ UpdateConnect(p, DocBoth)
                     \/ UpdateExecute(p) \/ UpdateRaise(p) \/ Finalize(p)
                     \/ Crash(p)) => registry' = registry
                 /\ UpdateCommit(p) =>
                       content(registry') =
                           content(UpsertCommands(registry, call'.commands, clock))
           /\ registry' # registry => \E p \in Procs : UpdateCommit(p)]_vars

\* a process has executed every statement of its batch and not committed,
\* the other process is connected and waits for the write lock, and the
\* table holds the rows of an earlier commit and none of the uncommitted ones
C27_Witness ==
    \E c, d \in connections :
        /\ c.proc = "p1" /\ c.lock /\ ~c.leaked /\ c.todo = <<>>
        /\ c.commands = DocBoth
        /\ d.proc = "p2" /\ ~d.lock /\ ~d.leaked /\ d.todo # <<>>
        /\ d.commands = DocModBan
        /\ registry # {}
        /\ \A r \in registry : r.command # "ping"
        /\ c.work # registry

\* C28: every persistence operation releases the connection it opened
\* before control returns to the caller, on the normal path and on every
\* error path: after any call, successful or raising, the number of open
\* connections is zero and no uncommitted transaction remains.
C28_ConnectionsReleased ==
    call.op \in {"start_session", "end_session", "record_test",
                 "update_command_registry", "create_snapshot"} =>
        /\ Cardinality(connections) = 0
        /\ \A c \in connections : ~c.lock

\* C29: a migrate_from_json call that returns False leaves test_sessions and
\* test_results as they were before the call: no migration session row,
\* ended or not, and no partially imported result rows remain, also for a
\* file that is valid JSON with a top level that is no mapping.
C29_FailedMigrationLeavesNoRows ==
    [][\A f \in LegacyFiles :
          (MigrateFromJson(f) /\ ret' = Returned("False")) =>
              UNCHANGED <<sessions, results>>]_vars

\* C30 as stated: update_command_registry(doc) writes exactly the keys the
\* document declares: afterwards each command of doc has an entry
\* (command, '') and each declared subcommand an entry (command, subcommand)
\* carrying the document's description and aliases of that command or
\* subcommand, with is_active true; every command_registry row whose key is
\* not declared, and every row of test_sessions, test_results and
\* test_snapshots, is left unchanged.
C30_EntriesCarryTheirOwnValues ==
    [][\A d \in Documents : UpdateCommandRegistry(d) =>
          LET stmts == Statements(d)
              declared == {<<stmts[k].command, stmts[k].subcommand>> :
                              k \in 1..Len(stmts)}
              undeclared(reg) ==
                  {r \in reg : <<r.command, r.subcommand>> \notin declared}
          IN  /\ \A k \in 1..Len(stmts) :
                    \E r \in registry' :
                        /\ r.command = stmts[k].command
                        /\ r.subcommand = stmts[k].subcommand
                        /\ r.description = stmts[k].description
                        /\ r.aliases = JsonDumps(stmts[k].aliases)
                        /\ r.is_active = 1
              /\ undeclared(registry') = undeclared(registry)
              /\ UNCHANGED <<sessions, results, snapshots>>]_vars

\* C30, amended: update_command_registry(doc) writes exactly the keys the
\* document declares: afterwards every declared key, (command, '') for a
\* command and (command, subcommand) for a subcommand, has one entry with
\* is_active true that carries the description and aliases of the
\* declaration of that key the loops reach last (a subcommand key '' comes
\* after its command and overwrites the command's values); every
\* command_registry row whose key is not declared, and every row of
\* test_sessions, test_results and test_snapshots, is left unchanged.
C30_WritesDeclaredKeys ==
    [][\A d \in Documents : UpdateCommandRegistry(d) =>
          LET stmts == Statements(d)
              declared == {<<stmts[k].command, stmts[k].subcommand>> :
                              k \in 1..Len(stmts)}
              undeclared(reg) ==
                  {r \in reg : <<r.command, r.subcommand>> \notin declared}
              last(key) ==
                  stmts[Max({k \in 1..Len(stmts) :
                               <<stmts[k].command, stmts[k].subcommand>> = key})]
          IN  /\ \A key \in declared :
                    LET rows == {r \in registry' :
                                    <<r.command, r.subcommand>> = key}
                    IN  /\ Cardinality(rows) = 1
                        /\ \A r \in rows :
                              /\ r.description = last(key).description
                              /\ r.aliases = JsonDumps(last(key).aliases)
                              /\ r.is_active = 1
              /\ undeclared(registry') = undeclared(registry)
              /\ \A r \in registry :
                    \E q \in registry' :
                        q.command = r.command /\ q.subcommand = r.subcommand
              /\ UNCHANGED <<sessions, results, snapshots>>]_vars

\* update_command_registry has been applied to a document that lists '' as a
\* subcommand key, on a registry that held the rows of another command,
\* written earlier, and a test result
C30_Witness ==
    /\ call.op = "update_command_registry"
    /\ call.commands = DocPingEmptySub
    /\ \E r \in registry :
          r.command = "mod" /\ r.subcommand = "ban" /\ r.last_modified < clock
    /\ \E r \in registry :
          r.command = "ping" /\ r.subcommand = "" /\ r.description = ""
              /\ r.last_modified = clock
    /\ Len(results) > 0
====
